---- MODULE Spec2Model ----
(***************************************************************************)
(* QuickNet: the connection lifecycle of QNET::Client and QNET::Server on  *)
(* top of the GameNetworkingSockets facade.                                *)
(*                                                                         *)
(* The transport is the environment. It answers every call the sessions    *)
(* make and, at each RunCallbacks, hands over whatever status callbacks it *)
(* has queued since the last one: any states, for any handles, in any      *)
(* order.                                                                  *)
(***************************************************************************)
EXTENDS Integers, Sequences, FiniteSets, TLC

\* ---------------------------------------------------------------- bounds
MaxHandle == 2      \* transport handles are 1..MaxHandle
MaxBatch == 2       \* status callbacks queued between two RunCallbacks
MaxRegistry == 3    \* entries of m_vecClients the environment lets build up
MaxInits == 2       \* times the library is initialized, and shut down, for real
MaxSharedBatch == 1 \* as MaxBatch, in a process with a client and a server
MaxSends == 2       \* messages the transport takes in each direction
MaxBacklog == 33    \* messages waiting for the client when it starts to drain

\* The size of pIncomingMsgs, and the limit passed to ReceiveMessagesOnConnection.
MaxMessagesPerCall == 16

\* ------------------------------------------------------- program constants
k_HSteamNetConnection_Invalid == 0
k_HSteamListenSocket_Invalid == 0

Handles == 1..MaxHandle
Sessions == {"Client", "Server"}
ConnectionStates ==
    {"Connecting", "FindingRoute", "Connected", "ClosedByPeer", "ProblemDetectedLocally"}
TerminalStates == {"ClosedByPeer", "ProblemDetectedLocally"}
Addresses == {"127.0.0.1:27020", "not an address"}
Messages == {"", "hello"}

\* SteamNetConnectionStatusChangedCallback_t: the handle, the new state and the
\* user data attached when the connection (or its listen socket) was created.
\* The user data is the session the connection was created by, or "none" (0).
Tags == Sessions \cup {"none"}
Event(s, st, h) == [m_nUserData |-> s, m_eState |-> st, m_hConn |-> h]
Events(s) == {Event(s, st, h) : st \in ConnectionStates, h \in Handles}

\* What the transport may have queued between two RunCallbacks, for connections
\* whose user data is in tags, max of them at most. The queue is the facade's:
\* it is not per session.
Batches(tags, max) == UNION {[1..n -> UNION {Events(t) : t \in tags}] : n \in 0..max}

\* One call into ISteamNetworkingSockets, with the transport's answer; msg is
\* the payload of a send.
Send(h, msg, ok) ==
    [fn |-> "SendMessageToConnection", h |-> h, linger |-> FALSE, ok |-> ok, msg |-> msg]
Call(fn, h, linger, ok) == [fn |-> fn, h |-> h, linger |-> linger, ok |-> ok, msg |-> ""]

Range(seq) == {seq[i] : i \in 1..Len(seq)}

VARIABLES
    m_pInterface,    \* per session: TRUE iff m_pInterface is non-null
    m_hConnection,   \* Client: the primary connection
    m_hListenSocket, \* Server
    m_vecClients,    \* Server: the registry
    m_isRunning,     \* Server
    runPc,           \* position of the thread executing Server::Run
    crashed,         \* the process dereferenced a null m_pInterface
    calls,           \* transport calls issued by the last operation
    lastOp,          \* the last operation, its input and its return value
    stopTwice,       \* history: lastOp is a Stop() that directly followed a Stop()
    live,            \* history: handles Connected and not closed since
    scen,            \* history: progress of "accept two, close one"
    localState,      \* history: the client's state by what happened to it
    downSince,       \* history: terminal event or Disconnect since last Connect
    stopCalled,      \* history: Stop() was called after the Run thread was started
    alive,           \* the sessions constructed and not destroyed
    facade,          \* the process-wide library: "down" or "up"
    realInits,       \* history: GameNetworkingSockets_Init calls that initialized
    realKills,       \* history: GameNetworkingSockets_Kill calls that shut down
    opened,          \* history: connections the client created and has not closed
    ended,           \* history: the primary handle a terminal event was processed for
    late,            \* history: the handle Disconnect() closed last, and whether the
                     \* last Poll ran a terminal event for it
    fresh,           \* history: Connect has not been called on the client
    listening,       \* history: Initialize succeeded and Stop has not run since
    dispatchedTo,    \* history: user data of the callbacks the last Poll ran
    loopback,        \* the client and the server talk to each other through the library
    link,            \* loopback: the connection between the two, and its two handles
    pending,         \* loopback: the status callbacks the facade has queued
    inbound,         \* loopback: per session, the messages waiting to be received
    accepted,        \* history: per receiving session, the messages the transport took
    received,        \* history: per session, the calls of OnMessageReceived
    sweep,           \* per thread: the range-for over m_vecClients it is executing
    http             \* the QNET::HttpServer of the process, and the thread in its Run

vars == <<m_pInterface, m_hConnection, m_hListenSocket, m_vecClients, m_isRunning,
          runPc, crashed, calls, lastOp, stopTwice, live, scen, localState,
          downSince, stopCalled, alive, facade, realInits, realKills, opened,
          ended, late, fresh, listening, dispatchedTo, loopback, link, pending, inbound,
          accepted, received, sweep, http>>

clientVars == <<m_hConnection, localState, downSince, opened, ended, late, fresh>>
serverVars == <<m_hListenSocket, m_vecClients, m_isRunning, live, scen, listening>>
processVars == <<m_pInterface, alive, facade, realInits, realKills>>
transportVars == <<loopback, link, pending, inbound, accepted, received>>

Op(op, ret, addr) == [op |-> op, ret |-> ret, addr |-> addr]
\* The threads of test/main.cpp: the one that executes Run, and main.
Threads == {"Run", "Main"}
\* A range-for over m_vecClients: the operation it belongs to, the iterator
\* (at) and the end iterator taken when the loop began (end), both as
\* positions in the vector; cb is TRUE while OnMessageReceived is executing.
\* History: the registry when the loop began (of), the handles the loop body
\* ran for (seen), whether the vector was modified since (torn), and the
\* handles Stop() has closed since (closed).
NoSweep == [op |-> "none", at |-> 0, end |-> 0, of |-> <<>>, seen |-> <<>>,
            torn |-> FALSE, cb |-> FALSE, closed |-> {}]
Idle == [t \in Threads |-> NoSweep]
\* push_back, erase and clear invalidate the iterators of the loops in progress.
Torn(sw) == [t \in Threads |-> IF sw[t].op = "none" THEN sw[t]
                                ELSE [sw[t] EXCEPT !.torn = TRUE]]
\* Stop closes the handles hs and clears the vector.
TornByStop(sw, hs) ==
    [t \in Threads |-> IF sw[t].op = "none" THEN sw[t]
                        ELSE [sw[t] EXCEPT !.torn = TRUE, !.closed = @ \cup hs]]
RecordSweep(op, tags, sw) ==
    /\ lastOp' = op
    /\ stopTwice' = (op.op = "Stop" /\ lastOp.op = "Stop")
    /\ dispatchedTo' = tags
    /\ sweep' = sw
    /\ http' = http
RecordTags(op, tags) == RecordSweep(op, tags, sweep)
Record(op) == RecordTags(op, {})

\* ------------------------------------------------------------ HttpServer
\* The routes a program registers and the requests its peers make.
Methods == {"GET", "POST"}
Paths == {"/", "/api/data"}
Routes == Methods \X Paths

\* QNET::HttpServer after its constructor: m_server holds an httplib::Server
\* that has no routes and is not running. routes, is_running and svr_sock are
\* the state of the httplib::Server; pc is the position of the thread that
\* executes Run; status is the status of the last response, 0 before the first.
\* History: the last call made on the object (last), whether it is a Stop()
\* that directly followed a Stop() (again), whether the last Stop() called
\* m_server->stop() (stopped), and whether m_server was deleted under the
\* thread that is inside listen (crashed).
NewHttpServer ==
    [alive |-> TRUE, routes |-> {}, is_running |-> FALSE, svr_sock |-> "invalid",
     pc |-> "none", status |-> 0, last |-> "HttpServer", again |-> FALSE,
     stopped |-> FALSE, crashed |-> FALSE]

\* The state of the underlying httplib::Server, and of the thread in Run.
Underlying(h) ==
    [routes |-> h.routes, is_running |-> h.is_running, svr_sock |-> h.svr_sock,
     pc |-> h.pc, status |-> h.status]

HttpServerStopAlways(h) ==
    [h EXCEPT !.svr_sock = "invalid", !.stopped = TRUE]

\* HttpServer::Stop(): m_server is non-null from the constructor on.
\* httplib::Server::stop() closes the listening socket; the thread inside
\* listen() is the one that sets is_running to false, on its way out.
HttpServerStop(h) ==
    IF h.is_running
    THEN [h EXCEPT !.svr_sock = "invalid", !.stopped = TRUE]
    ELSE [h EXCEPT !.stopped = FALSE]

NoScenario == [stage |-> "off", a |-> 0, b |-> 0, x |-> 0]
NoLate == [h |-> 0, ran |-> FALSE]

\* ----------------------------------------------------------- the transport
\* When a client and a server of one process are connected to each other
\* (test/main.cpp), what the transport answers and queues follows from what the
\* two sessions asked of it. link is that connection: the client's handle for
\* it, the server's handle for it, which of the two ends are still open, and
\* how far it got: "none", "proposed" to the server, "up", or "down".
NoLink == [cli |-> 0, srv |-> 0, st |-> "none", cliOpen |-> FALSE, srvOpen |-> FALSE]
NoMessages == [s \in Sessions |-> <<>>]

Transport == [link |-> link, pending |-> pending, inbound |-> inbound, accepted |-> accepted]

\* Handles are opaque; the loopback transport answers a creation with the
\* invalid handle or with the first one, whether a socket or a connection.
Issues(h) == h \in {0, 1}

\* The handle the server end of a connection gets, the client end having h.
PeerHandle(h) == CHOOSE x \in Handles : x # h

\* The transport takes a message for h: the client may send as soon as its
\* connection exists, the server once it is established.
Sendable(h) ==
    \/ h = link.cli /\ link.cliOpen /\ link.st \in {"proposed", "up"}
    \/ h = link.srv /\ link.srvOpen /\ link.st = "up"

\* ReceiveMessagesOnConnection knows h.
Receivable(h) ==
    \/ h = link.cli /\ link.cliOpen
    \/ h = link.srv /\ link.srvOpen

\* A non-empty message sent on an established connection whose server handle
\* is in the registry.
InScope(msg) ==
    /\ msg # ""
    /\ link.st = "up"
    /\ link.srv \in Range(m_vecClients)

\* What one call does to the transport. A close of one end discards what that
\* end had not received yet and tells the other end; CloseListenSocket closes
\* the connection that came in through the socket.
Effect(T, c) ==
    LET l == T.link
        wasLive == l.st \in {"proposed", "up"}
    IN  CASE c.fn = "ConnectByIPAddress" /\ c.ok ->
               IF listening
               THEN [T EXCEPT !.link = [cli |-> c.h, srv |-> PeerHandle(c.h), st |-> "proposed",
                                        cliOpen |-> TRUE, srvOpen |-> TRUE],
                              !.pending = Append(@, Event("Server", "Connecting", PeerHandle(c.h)))]
               ELSE [T EXCEPT !.link = [cli |-> c.h, srv |-> 0, st |-> "down",
                                        cliOpen |-> TRUE, srvOpen |-> FALSE],
                              !.pending = Append(@, Event("Client", "ProblemDetectedLocally", c.h))]
          [] c.fn = "AcceptConnection" /\ c.ok ->
               [T EXCEPT !.link.st = "up",
                         !.pending = @ \o <<Event("Server", "Connected", l.srv),
                                            Event("Client", "Connected", l.cli)>>]
          [] c.fn = "CloseConnection" /\ c.h = l.cli /\ l.cliOpen ->
               [T EXCEPT !.link.cliOpen = FALSE,
                         !.link.st = IF wasLive THEN "down" ELSE @,
                         !.inbound["Client"] = <<>>,
                         !.pending = IF wasLive /\ l.srvOpen
                                     THEN Append(@, Event("Server", "ClosedByPeer", l.srv))
                                     ELSE @]
          [] \/ c.fn = "CloseConnection" /\ c.h = l.srv /\ l.srvOpen
             \/ c.fn = "CloseListenSocket" /\ l.srvOpen ->
               [T EXCEPT !.link.srvOpen = FALSE,
                         !.link.st = IF wasLive THEN "down" ELSE @,
                         !.inbound["Server"] = <<>>,
                         !.pending = IF wasLive /\ l.cliOpen
                                     THEN Append(@, Event("Client", "ClosedByPeer", l.cli))
                                     ELSE @]
          [] c.fn = "SendMessageToConnection" /\ c.ok ->
               LET r == IF c.h = l.cli THEN "Server" ELSE "Client"
               IN  [T EXCEPT !.accepted[r] = Append(@, [msg |-> c.msg, scope |-> InScope(c.msg)]),
                             !.inbound[r] = Append(@, [msg |-> c.msg, id |-> Len(T.accepted[r]) + 1])]
          [] OTHER -> T

RECURSIVE Effects(_, _)
Effects(T, cs) == IF cs = <<>> THEN T ELSE Effects(Effect(T, Head(cs)), Tail(cs))

\* The transport after the calls of the operation, pend being the callbacks
\* still queued when it began. Without the loopback nothing is kept.
TransportStep(pend) ==
    /\ UNCHANGED loopback
    /\ IF loopback
       THEN \E T1 \in {Effects([Transport EXCEPT !.pending = pend], calls')} :
                /\ link' = T1.link
                /\ pending' = T1.pending
                /\ inbound' = T1.inbound
                /\ accepted' = T1.accepted
       ELSE UNCHANGED <<link, pending, inbound, accepted>>

\* The first max messages of q, and the rest.
Drain(q, max) ==
    LET n == IF Len(q) < max THEN Len(q) ELSE max
    IN  [batch |-> SubSeq(q, 1, n), rest |-> SubSeq(q, n + 1, Len(q))]

\* ------------------------------------------------------------ construction
\* ConnectionManager() sets m_pInterface from GameNetworkingSockets_Init; the
\* vector is default-constructed empty and m_isRunning has an initializer.
\* m_hConnection and m_hListenSocket have none: a default-initialized session
\* (QNET::Client client;) starts with an indeterminate handle, a
\* value-initialized one (std::make_unique<QNET::Client>()) with 0.
Init ==
    /\ alive \in SUBSET Sessions
    /\ m_pInterface \in [Sessions -> BOOLEAN]
    /\ \A s \in Sessions : m_pInterface[s] => s \in alive
    /\ m_hConnection \in 0..MaxHandle
    /\ m_hListenSocket \in 0..MaxHandle
    /\ "Client" \notin alive => m_hConnection = k_HSteamNetConnection_Invalid
    /\ "Server" \notin alive => m_hListenSocket = k_HSteamListenSocket_Invalid
    /\ facade = IF \E s \in Sessions : m_pInterface[s] THEN "up" ELSE "down"
    /\ realInits = IF facade = "up" THEN 1 ELSE 0
    /\ realKills = 0
    /\ opened = {}
    /\ ended = k_HSteamNetConnection_Invalid
    /\ late = NoLate
    /\ sweep = Idle
    /\ http = NewHttpServer
    /\ fresh = TRUE
    /\ listening = FALSE
    /\ dispatchedTo = {}
    /\ m_vecClients = <<>>
    /\ m_isRunning = FALSE
    /\ runPc = "none"
    /\ crashed = FALSE
    /\ calls = <<>>
    /\ lastOp = Op("construct", TRUE, "")
    /\ stopTwice = FALSE
    /\ live = {}
    /\ scen = [stage |-> "fresh", a |-> 0, b |-> 0, x |-> 0]
    /\ localState = "NoConnection"
    /\ downSince = FALSE
    /\ stopCalled = FALSE
    /\ loopback \in BOOLEAN
    /\ link = NoLink
    /\ pending = <<>>
    /\ inbound = NoMessages
    /\ accepted = NoMessages
    /\ received = NoMessages

\* A program with the server alone, and one with the client alone: the peers
\* are elsewhere.
InitServer == Init /\ alive = {"Server"} /\ ~loopback
InitClient == Init /\ alive = {"Client"} /\ ~loopback

\* ------------------------------------------------------------------ Server
\* A removal that drops the last entry whenever x is present (pop_back after a
\* swap that was forgotten).
StdRemoveEraseLast(v, x) ==
    IF x \in Range(v) THEN SubSeq(v, 1, Len(v) - 1) ELSE v

\* std::remove(begin, end, x) followed by the single-iterator erase(it) of
\* Server.cpp:154-158. std::remove compacts the kept elements to the front and
\* writes nothing behind them, so positions k+1..n keep their old values; erase(it)
\* then drops position k+1 alone.
StdRemoveErase(v, x) ==
    LET kept == SelectSeq(v, LAMBDA y : y # x)
        k == Len(kept)
    IN  IF k = Len(v) THEN v
        ELSE kept \o SubSeq(v, k + 2, Len(v))

\* A server handler that closes, on a terminal event, only a handle it finds in
\* the registry.
ServerHandleConnectionStatusChangedCloseKnown(st, ev, acc) ==
    LET h == ev.m_hConn IN
    CASE ev.m_eState = "Connecting" ->
           IF h \in acc
           THEN [st EXCEPT !.calls = @ \o <<Call("AcceptConnection", h, FALSE, TRUE)>>]
           ELSE [st EXCEPT !.calls = @ \o <<Call("AcceptConnection", h, FALSE, FALSE),
                                            Call("CloseConnection", h, FALSE, TRUE)>>]
      [] ev.m_eState = "Connected" ->
           [st EXCEPT !.m_vecClients = Append(@, h)]
      [] ev.m_eState \in TerminalStates ->
           IF h \in Range(st.m_vecClients)
           THEN [st EXCEPT !.calls = @ \o <<Call("CloseConnection", h, FALSE, TRUE)>>,
                           !.m_vecClients = StdRemoveErase(@, h)]
           ELSE st
      [] OTHER -> st

\* A server handler that turns a connection away once the registry is full.
ServerHandleConnectionStatusChangedBusy(st, ev, acc) ==
    LET h == ev.m_hConn IN
    CASE ev.m_eState = "Connecting" ->
           IF Len(st.m_vecClients) >= MaxRegistry
           THEN [st EXCEPT !.calls = @ \o <<Call("CloseConnection", h, FALSE, TRUE)>>]
           ELSE IF h \in acc
           THEN [st EXCEPT !.calls = @ \o <<Call("AcceptConnection", h, FALSE, TRUE)>>]
           ELSE [st EXCEPT !.calls = @ \o <<Call("AcceptConnection", h, FALSE, FALSE),
                                            Call("CloseConnection", h, FALSE, TRUE)>>]
      [] ev.m_eState = "Connected" ->
           [st EXCEPT !.m_vecClients = Append(@, h)]
      [] ev.m_eState \in TerminalStates ->
           [st EXCEPT !.calls = @ \o <<Call("CloseConnection", h, FALSE, TRUE)>>,
                      !.m_vecClients = StdRemoveErase(@, h)]
      [] OTHER -> st

\* A server handler that leaves a connection it could not accept as it is.
ServerHandleConnectionStatusChangedNoClose(st, ev, acc) ==
    LET h == ev.m_hConn IN
    CASE ev.m_eState = "Connecting" ->
           [st EXCEPT !.calls = @ \o <<Call("AcceptConnection", h, FALSE, h \in acc)>>]
      [] ev.m_eState = "Connected" ->
           [st EXCEPT !.m_vecClients = Append(@, h)]
      [] ev.m_eState \in TerminalStates ->
           [st EXCEPT !.calls = @ \o <<Call("CloseConnection", h, FALSE, TRUE)>>,
                      !.m_vecClients = StdRemoveErase(@, h)]
      [] OTHER -> st

\* Server::HandleConnectionStatusChanged on the fields st; acc is the set of
\* handles for which the transport lets AcceptConnection succeed.
ServerHandleConnectionStatusChanged(st, ev, acc) ==
    LET h == ev.m_hConn IN
    CASE ev.m_eState = "Connecting" ->
           IF h \in acc
           THEN [st EXCEPT !.calls = @ \o <<Call("AcceptConnection", h, FALSE, TRUE)>>]
           ELSE [st EXCEPT !.calls = @ \o <<Call("AcceptConnection", h, FALSE, FALSE),
                                            Call("CloseConnection", h, FALSE, TRUE)>>]
      [] ev.m_eState = "Connected" ->
           [st EXCEPT !.m_vecClients = Append(@, h)]
      [] ev.m_eState \in TerminalStates ->
           [st EXCEPT !.calls = @ \o <<Call("CloseConnection", h, FALSE, TRUE)>>,
                      !.m_vecClients = StdRemoveErase(@, h)]
      [] OTHER -> st

\* ------------------------------------------------------------------ Client
IsConnected == m_hConnection # k_HSteamNetConnection_Invalid

\* A client handler that closes the connection and keeps the handle.
ClientHandleConnectionStatusChangedKeepHandle(st, ev) ==
    IF ev.m_hConn # st.m_hConnection THEN st
    ELSE CASE ev.m_eState \in TerminalStates ->
                [st EXCEPT !.calls = @ \o <<Call("CloseConnection", ev.m_hConn, FALSE, TRUE)>>]
           [] OTHER -> st

\* A client handler without the test of the handle.
ClientHandleConnectionStatusChangedAnyHandle(st, ev) ==
    CASE ev.m_eState = "Connected" -> st
      [] ev.m_eState \in TerminalStates ->
           [st EXCEPT !.calls = @ \o <<Call("CloseConnection", ev.m_hConn, FALSE, TRUE)>>,
                      !.m_hConnection = k_HSteamNetConnection_Invalid]
      [] OTHER -> st

\* Client::HandleConnectionStatusChanged on the fields st.
ClientHandleConnectionStatusChanged(st, ev) ==
    IF ev.m_hConn # st.m_hConnection THEN st
    ELSE CASE ev.m_eState = "Connected" -> st
           [] ev.m_eState \in TerminalStates ->
                [st EXCEPT !.calls = @ \o <<Call("CloseConnection", ev.m_hConn, FALSE, TRUE)>>,
                           !.m_hConnection = k_HSteamNetConnection_Invalid]
           [] OTHER -> st

\* ------------------------------------------------------- ConnectionManager
\* A dispatch that hands every callback that is not the client's to the server.
OnGlobalConnectionStatusChangedAny(st, ev, acc) ==
    CASE ev.m_nUserData = "Client" -> ClientHandleConnectionStatusChanged(st, ev)
      [] OTHER -> ServerHandleConnectionStatusChanged(st, ev, acc)

\* The single callback the transport invokes: the user data names the session.
OnGlobalConnectionStatusChanged(st, ev, acc) ==
    CASE ev.m_nUserData = "Server" -> ServerHandleConnectionStatusChanged(st, ev, acc)
      [] ev.m_nUserData = "Client" -> ClientHandleConnectionStatusChanged(st, ev)
      [] OTHER -> st

\* History kept beside one callback: st is the state before it, st1 after it.
History(st, st1, ev) ==
    LET h == ev.m_hConn
        onServer == ev.m_nUserData = "Server"
        primary == ev.m_nUserData = "Client" /\ h = st.m_hConnection
        sc == st.scen
    IN  [st1 EXCEPT
          !.live = IF onServer /\ ev.m_eState = "Connected" THEN @ \cup {h}
                   ELSE IF onServer /\ ev.m_eState \in TerminalStates THEN @ \ {h}
                   ELSE @,
          !.scen = IF onServer /\ ev.m_eState = "Connected"
                   THEN IF sc.stage = "fresh" THEN [sc EXCEPT !.stage = "one", !.a = h]
                        ELSE IF sc.stage = "one" /\ h # sc.a
                             THEN [sc EXCEPT !.stage = "two", !.b = h]
                        ELSE NoScenario
                   ELSE IF onServer /\ ev.m_eState \in TerminalStates
                   THEN IF sc.stage = "two" /\ h \in {sc.a, sc.b}
                        THEN [sc EXCEPT !.stage = "closed", !.x = h]
                        ELSE NoScenario
                   ELSE sc,
          !.localState = IF primary /\ ev.m_eState = "Connected" /\ @ = "Connecting"
                         THEN "Connected"
                         ELSE IF primary /\ ev.m_eState \in TerminalStates
                         THEN "NoConnection"
                         ELSE @,
          !.downSince = @ \/ (primary /\ ev.m_eState \in TerminalStates),
          !.opened = IF primary /\ ev.m_eState \in TerminalStates THEN @ \ {h} ELSE @,
          !.ended = IF primary /\ ev.m_eState \in TerminalStates THEN h ELSE @,
          !.late.ran = @ \/ (/\ ev.m_nUserData = "Client"
                              /\ ev.m_eState \in TerminalStates
                              /\ h = st.late.h
                              /\ h # st.m_hConnection)]

\* ISteamNetworkingSockets::RunCallbacks: every queued callback, in queue order.
RECURSIVE RunCallbacks(_, _, _)
RunCallbacks(st, queue, acc) ==
    IF queue = <<>> THEN st
    ELSE LET ev == Head(queue)
         IN  RunCallbacks(History(st, OnGlobalConnectionStatusChanged(st, ev, acc), ev),
                          Tail(queue), acc)

NumConnected(queue) ==
    Len(SelectSeq(queue, LAMBDA e : e.m_nUserData = "Server" /\ e.m_eState = "Connected"))
\* The handles AcceptConnection is called for while queue is run.
Proposed(queue) ==
    {queue[i].m_hConn : i \in {j \in 1..Len(queue) :
        queue[j].m_nUserData = "Server" /\ queue[j].m_eState = "Connecting"}}
UserData(queue) == {queue[i].m_nUserData : i \in 1..Len(queue)}

\* The callbacks RunCallbacks finds: through the loopback those the facade
\* queued, otherwise whatever the peers caused. AcceptConnection succeeds for a
\* connection that is still proposed, otherwise as the transport pleases.
Queued(tags, max) == IF loopback THEN {pending} ELSE Batches(tags, max)
Accepts(queue) ==
    IF loopback
    THEN {{h \in Proposed(queue) : h = link.srv /\ link.srvOpen /\ link.st = "proposed"}}
    ELSE SUBSET Proposed(queue)

\* The fields the status handlers work on, as one record.
Fields ==
    [m_vecClients |-> m_vecClients, m_hConnection |-> m_hConnection,
     calls |-> <<>>, live |-> live, scen |-> scen, localState |-> localState,
     downSince |-> downSince, opened |-> opened, ended |-> ended,
     late |-> [late EXCEPT !.ran = FALSE]]

\* ConnectionManager::Poll, called on session s, in a process whose connections
\* carry the user data in tags and whose facade has queued at most max callbacks.
PollBody(s, tags, max) ==
    /\ ~crashed
    /\ IF ~m_pInterface[s]
       THEN /\ calls' = <<>>
            /\ RecordTags(Op("Poll", TRUE, s), {})
            /\ UNCHANGED <<clientVars, serverVars, loopback, link, pending, inbound, accepted>>
       ELSE \E queue \in Queued(tags, max) : \E acc \in Accepts(queue) :
              \E st1 \in {RunCallbacks(Fields, queue, acc)} :
                  /\ Len(m_vecClients) + NumConnected(queue) <= MaxRegistry
                  /\ m_vecClients' = st1.m_vecClients
                  /\ m_hConnection' = st1.m_hConnection
                  /\ calls' = st1.calls
                  /\ live' = st1.live
                  /\ scen' = st1.scen
                  /\ localState' = st1.localState
                  /\ downSince' = st1.downSince
                  /\ opened' = st1.opened
                  /\ ended' = st1.ended
                  /\ late' = st1.late
                  /\ RecordSweep(Op("Poll", TRUE, s), UserData(queue),
                                 IF st1.m_vecClients # m_vecClients \/ NumConnected(queue) > 0
                                 THEN Torn(sweep) ELSE sweep)
                  /\ TransportStep(<<>>)
                  /\ UNCHANGED <<m_hListenSocket, m_isRunning, listening, fresh>>
    /\ UNCHANGED <<processVars, crashed, stopCalled, received>>

Poll(s) == PollBody(s, {s}, MaxBatch) /\ UNCHANGED runPc

\* Server::Initialize: h is what CreateListenSocketIP returns.
Initialize ==
    /\ ~crashed
    /\ IF ~m_pInterface["Server"]
       THEN /\ calls' = <<>>
            /\ Record(Op("Initialize", FALSE, ""))
            /\ UNCHANGED <<m_hListenSocket, listening>>
       ELSE \E h \in 0..MaxHandle :
              /\ loopback => Issues(h)
              /\ m_hListenSocket' = h
              /\ listening' = (h # k_HSteamListenSocket_Invalid)
              /\ calls' = <<Call("CreateListenSocketIP", h, FALSE, h # k_HSteamListenSocket_Invalid)>>
              /\ Record(Op("Initialize", h # k_HSteamListenSocket_Invalid, ""))
    /\ TransportStep(pending)
    /\ UNCHANGED <<processVars, clientVars, m_vecClients, m_isRunning, live, scen,
                   runPc, crashed, stopCalled, received>>

\* A Stop that closes the peers and forgets the listen socket.
StopCallsNoListen(vec, listen) ==
    [i \in 1..Len(vec) |-> Call("CloseConnection", vec[i], TRUE, TRUE)]

\* The transport calls of Server::Stop: the loop over m_vecClients, then the
\* listen socket.
StopCalls(vec, listen) ==
    [i \in 1..Len(vec) |-> Call("CloseConnection", vec[i], TRUE, TRUE)]
    \o (IF listen # k_HSteamListenSocket_Invalid
        THEN <<Call("CloseListenSocket", listen, FALSE, TRUE)>>
        ELSE <<>>)

\* Server::Stop.
Stop ==
    /\ ~crashed
    /\ m_isRunning' = FALSE
    /\ IF ~m_pInterface["Server"]
       THEN /\ calls' = <<>>
            /\ UNCHANGED <<m_vecClients, m_hListenSocket, live, scen, listening>>
       ELSE /\ calls' = StopCalls(m_vecClients, m_hListenSocket)
            /\ listening' = FALSE
            /\ m_vecClients' = <<>>
            /\ m_hListenSocket' = k_HSteamListenSocket_Invalid
            /\ live' = live \ Range(m_vecClients)
            /\ scen' = NoScenario
    /\ RecordSweep(Op("Stop", TRUE, ""), {},
                   IF m_pInterface["Server"] /\ m_vecClients # <<>>
                   THEN TornByStop(sweep, Range(m_vecClients)) ELSE sweep)
    /\ stopCalled' = (stopCalled \/ runPc # "none")
    /\ TransportStep(pending)
    /\ UNCHANGED <<processVars, clientVars, runPc, crashed, received>>

\* A broadcast loop that returns at the first send the transport rejects.
RECURSIVE BroadcastSendsAbort(_, _, _)
BroadcastSendsAbort(vec, strMessage, rej) ==
    IF vec = <<>> THEN <<>>
    ELSE IF Head(vec) \in rej THEN <<Send(Head(vec), strMessage, FALSE)>>
    ELSE <<Send(Head(vec), strMessage, TRUE)>> \o BroadcastSendsAbort(Tail(vec), strMessage, rej)

\* The loop of Server::BroadcastMessage: one SendMessageToConnection per entry;
\* rej is the set of handles for which the transport rejects the send. The
\* result of the send is not looked at.
RECURSIVE BroadcastSends(_, _, _)
BroadcastSends(vec, strMessage, rej) ==
    IF vec = <<>> THEN <<>>
    ELSE <<Send(Head(vec), strMessage, Head(vec) \notin rej)>>
         \o BroadcastSends(Tail(vec), strMessage, rej)

\* Server::BroadcastMessage.
BroadcastMessage ==
    /\ ~crashed
    /\ IF ~m_pInterface["Server"]
       THEN calls' = <<>>
       ELSE \E strMessage \in Messages, rej \in SUBSET Range(m_vecClients) :
              /\ loopback =>
                    /\ rej = {h \in Range(m_vecClients) : ~Sendable(h)}
                    /\ Len(accepted["Client"]) < MaxSends
              /\ calls' = BroadcastSends(m_vecClients, strMessage, rej)
    /\ Record(Op("BroadcastMessage", TRUE, ""))
    /\ TransportStep(pending)
    /\ UNCHANGED <<processVars, clientVars, serverVars, runPc, crashed, stopCalled, received>>

\* The sweep of Server::ReceiveMessages: one ReceiveMessagesOnConnection per
\* entry; err is the set of handles for which it returns a negative count. No
\* peer has sent anything: the count is 0 otherwise.
RECURSIVE ReceiveSweep(_, _)
ReceiveSweep(vec, err) ==
    IF vec = <<>> THEN <<>>
    ELSE <<Call("ReceiveMessagesOnConnection", Head(vec), FALSE, Head(vec) \notin err)>>
         \o ReceiveSweep(Tail(vec), err)

\* The messages of a batch that are released: pIncomingMsgs[i]->Release() stands
\* inside if (pIncomingMsgs[i] && pIncomingMsgs[i]->m_cbSize > 0), after the
\* test of OnMessageReceived and outside it; the same in Client and in Server.
Released(batch) == SelectSeq(batch, LAMBDA m : m.msg # "")

\* A callback loop that stops after the first message it hands over.
OnMessageReceivedFirst(h, batch) ==
    LET full == SelectSeq(batch, LAMBDA m : m.msg # "")
    IN  [i \in 1..(IF full = <<>> THEN 0 ELSE 1) |-> [h |-> h, id |-> full[i].id]]

\* The inner loop of ReceiveMessages on one batch: OnMessageReceived for each
\* message with m_cbSize > 0, with the handle it was received on.
OnMessageReceived(h, batch) ==
    LET full == SelectSeq(batch, LAMBDA m : m.msg # "")
    IN  [i \in 1..Len(full) |-> [h |-> h, id |-> full[i].id]]

\* The sweep of Server::ReceiveMessages over the loopback: every visit of the
\* handle h0 takes a batch of what is waiting in q. The result is the calls of
\* OnMessageReceived and what is left waiting.
RECURSIVE ServerDrain(_, _, _)
ServerDrain(vec, q, h0) ==
    IF vec = <<>> THEN [got |-> <<>>, rest |-> q]
    ELSE IF Head(vec) # h0 THEN ServerDrain(Tail(vec), q, h0)
    ELSE LET d == Drain(q, MaxMessagesPerCall)
             r == ServerDrain(Tail(vec), d.rest, h0)
         IN  [got |-> OnMessageReceived(h0, d.batch) \o r.got, rest |-> r.rest]

\* Server::ReceiveMessages. Peers that are elsewhere have sent nothing: the
\* transport answers 0 messages or an error.
ServerReceiveMessagesBody ==
    /\ ~crashed
    /\ IF ~m_pInterface["Server"]
       THEN /\ calls' = <<>>
            /\ UNCHANGED <<inbound, received>>
       ELSE /\ \E err \in SUBSET Range(m_vecClients) :
                 /\ loopback => err = {h \in Range(m_vecClients) : ~Receivable(h)}
                 /\ calls' = ReceiveSweep(m_vecClients, err)
            /\ IF loopback /\ link.srvOpen
               THEN LET d == ServerDrain(m_vecClients, inbound["Server"], link.srv)
                    IN  /\ inbound' = [inbound EXCEPT !["Server"] = d.rest]
                        /\ received' = [received EXCEPT !["Server"] = @ \o d.got]
               ELSE UNCHANGED <<inbound, received>>
    /\ Record(Op("ReceiveMessages", TRUE, ""))
    /\ UNCHANGED <<processVars, clientVars, serverVars, crashed, stopCalled,
                   loopback, link, pending, accepted>>

ServerReceiveMessages == ServerReceiveMessagesBody /\ UNCHANGED runPc

NextServer ==
    \/ Poll("Server")
    \/ Initialize
    \/ Stop
    \/ BroadcastMessage
    \/ ServerReceiveMessages

SpecServer == InitServer /\ [][NextServer]_vars

\* Server::Run on its own thread (std::thread serverThread([&]{ Run(); })): the
\* thread exists, then executes Run's statements one at a time while the other
\* thread goes on calling the server.
StartRunThread ==
    /\ ~crashed
    /\ runPc = "none"
    /\ runPc' = "entry"
    /\ UNCHANGED <<processVars, clientVars, serverVars, crashed, calls, lastOp,
                   stopTwice, dispatchedTo, stopCalled, transportVars, sweep, http>>

\* m_isRunning = true;
RunEntry ==
    /\ ~crashed
    /\ runPc = "entry"
    /\ m_isRunning' = TRUE
    /\ runPc' = "while"
    /\ UNCHANGED <<processVars, clientVars, m_hListenSocket, m_vecClients, live, scen,
                   listening, crashed, calls, lastOp, stopTwice, dispatchedTo, stopCalled,
                   transportVars, sweep, http>>

\* while (m_isRunning)
RunWhile ==
    /\ ~crashed
    /\ runPc = "while"
    /\ runPc' = IF m_isRunning THEN "Poll" ELSE "returned"
    /\ UNCHANGED <<processVars, clientVars, serverVars, crashed, calls, lastOp,
                   stopTwice, dispatchedTo, stopCalled, transportVars, sweep, http>>

\* Poll();
RunPoll ==
    /\ runPc = "Poll"
    /\ PollBody("Server", {"Server"}, MaxBatch)
    /\ runPc' = "ReceiveMessages"

\* ReceiveMessages();
RunReceiveMessages ==
    /\ runPc = "ReceiveMessages"
    /\ ServerReceiveMessagesBody
    /\ runPc' = "sleep_for"

\* A loop whose sleep is followed by the next Poll at once.
RunSleepThenPoll ==
    /\ ~crashed
    /\ runPc = "sleep_for"
    /\ runPc' = "Poll"
    /\ UNCHANGED <<processVars, clientVars, serverVars, crashed, calls, lastOp,
                   stopTwice, dispatchedTo, stopCalled, transportVars, sweep, http>>

\* std::this_thread::sleep_for(10ms);
RunSleep ==
    /\ ~crashed
    /\ runPc = "sleep_for"
    /\ runPc' = "while"
    /\ UNCHANGED <<processVars, clientVars, serverVars, crashed, calls, lastOp,
                   stopTwice, dispatchedTo, stopCalled, transportVars, sweep, http>>

Run == RunEntry \/ RunWhile \/ RunPoll \/ RunReceiveMessages \/ RunSleep

NextRun ==
    \/ Initialize
    \/ StartRunThread
    \/ RunEntry
    \/ RunWhile
    \/ RunPoll
    \/ RunReceiveMessages
    \/ RunSleep
    \/ Stop
    \/ BroadcastMessage

SpecRun == InitServer /\ [][NextRun]_vars

\* The thread that executes Run is scheduled: a statement it can execute is
\* executed eventually. Nothing obliges the application to call anything.
FairSpecRun == SpecRun /\ WF_vars(Run)

\* ------------------------------------------------------------------ Client
\* SteamNetworkingIPAddr::ParseString: of the two addresses the applications
\* here pass, one is an ip:port and one is not.
ParseString(addr) == addr = "127.0.0.1:27020"

\* A Connect that reports success whatever handle came back.
ConnectReturnAlways(h) == TRUE

\* What Connect returns once ConnectByIPAddress has answered h.
ConnectReturn(h) == h # k_HSteamNetConnection_Invalid

\* Client::Connect: h is what ConnectByIPAddress returns, the invalid handle or
\* a handle that no connection the client still has open is using.
Connect ==
    /\ ~crashed
    /\ \E addr \in Addresses :
         IF ~m_pInterface["Client"] \/ ~ParseString(addr)
         THEN /\ calls' = <<>>
              /\ Record(Op("Connect", FALSE, addr))
              /\ UNCHANGED <<m_hConnection, localState, downSince, opened, ended, late>>
         ELSE \E h \in (0..MaxHandle) \ opened :
                /\ loopback => Issues(h)
                /\ m_hConnection' = h
                /\ opened' = IF h # k_HSteamNetConnection_Invalid THEN opened \cup {h} ELSE opened
                /\ ended' = IF h = ended THEN k_HSteamNetConnection_Invalid ELSE ended
                /\ late' = IF h = late.h THEN NoLate ELSE late
                /\ calls' = <<Call("ConnectByIPAddress", h, FALSE, h # k_HSteamNetConnection_Invalid)>>
                /\ Record(Op("Connect", ConnectReturn(h), addr))
                /\ localState' = IF h # k_HSteamNetConnection_Invalid
                                 THEN "Connecting" ELSE "NoConnection"
                /\ downSince' = (downSince /\ h = k_HSteamNetConnection_Invalid)
    /\ fresh' = FALSE
    /\ TransportStep(pending)
    /\ UNCHANGED <<processVars, serverVars, runPc, crashed, stopCalled, received>>

\* Client::Disconnect.
Disconnect ==
    /\ ~crashed
    /\ IF ~m_pInterface["Client"] \/ m_hConnection = k_HSteamNetConnection_Invalid
       THEN /\ calls' = <<>>
            /\ UNCHANGED <<m_hConnection, opened, late>>
       ELSE /\ calls' = <<Call("CloseConnection", m_hConnection, TRUE, TRUE)>>
            /\ m_hConnection' = k_HSteamNetConnection_Invalid
            /\ opened' = opened \ {m_hConnection}
            /\ late' = [h |-> m_hConnection, ran |-> FALSE]
    /\ localState' = "NoConnection"
    /\ downSince' = TRUE
    /\ Record(Op("Disconnect", TRUE, ""))
    /\ UNCHANGED <<ended, fresh>>
    /\ TransportStep(pending)
    /\ UNCHANGED <<processVars, serverVars, runPc, crashed, stopCalled, received>>

\* Client::SendMessageToServer. m_pInterface is used without a test: with a
\* valid-looking handle and no interface the call is made through a null pointer.
SendMessageToServer ==
    /\ ~crashed
    /\ IF ~IsConnected
       THEN /\ calls' = <<>>
            /\ UNCHANGED crashed
       ELSE IF ~m_pInterface["Client"]
       THEN /\ calls' = <<>>
            /\ crashed' = TRUE
       ELSE /\ \E strMessage \in Messages, ok \in BOOLEAN :
                 /\ loopback =>
                       /\ ok <=> Sendable(m_hConnection)
                       /\ Len(accepted["Server"]) < MaxSends
                 /\ calls' = <<Send(m_hConnection, strMessage, ok)>>
            /\ UNCHANGED crashed
    /\ Record(Op("SendMessageToServer", TRUE, ""))
    /\ TransportStep(pending)
    /\ UNCHANGED <<processVars, clientVars, serverVars, runPc, stopCalled, received>>

\* Client::ReceiveMessages. A server that is elsewhere has sent nothing: the
\* transport answers 0 messages or an error.
ClientReceiveMessages ==
    /\ ~crashed
    /\ IF ~IsConnected
       THEN /\ calls' = <<>>
            /\ UNCHANGED <<crashed, inbound, received>>
       ELSE IF ~m_pInterface["Client"]
       THEN /\ calls' = <<>>
            /\ crashed' = TRUE
            /\ UNCHANGED <<inbound, received>>
       ELSE /\ \E ok \in BOOLEAN :
                 /\ loopback => (ok <=> Receivable(m_hConnection))
                 /\ calls' = <<Call("ReceiveMessagesOnConnection", m_hConnection, FALSE, ok)>>
            /\ IF loopback /\ link.cliOpen /\ m_hConnection = link.cli
               THEN LET d == Drain(inbound["Client"], MaxMessagesPerCall)
                    IN  /\ inbound' = [inbound EXCEPT !["Client"] = d.rest]
                        /\ received' = [received EXCEPT !["Client"] =
                                            @ \o OnMessageReceived(m_hConnection, d.batch)]
               ELSE UNCHANGED <<inbound, received>>
            /\ UNCHANGED crashed
    /\ Record(Op("ReceiveMessages", TRUE, ""))
    /\ UNCHANGED <<processVars, clientVars, serverVars, runPc, stopCalled,
                   loopback, link, pending, accepted>>

NextClient ==
    \/ Connect
    \/ Disconnect
    \/ SendMessageToServer
    \/ ClientReceiveMessages
    \/ Poll("Client")

SpecClient == InitClient /\ [][NextClient]_vars

\* ------------------------------------------- a client and a server together
\* test/main.cpp: both sessions made by std::make_unique, which zeroes the
\* handles, in a process where the library initialized.
InitShared ==
    /\ Init
    /\ alive = Sessions
    /\ \A s \in Sessions : m_pInterface[s]
    /\ m_hConnection = k_HSteamNetConnection_Invalid
    /\ m_hListenSocket = k_HSteamListenSocket_Invalid
    /\ ~loopback

\* Poll on either session runs the callbacks of the one facade: those of the
\* client's connection, those of the server's, and any without user data.
PollShared(s) == PollBody(s, Tags, MaxSharedBatch) /\ UNCHANGED runPc

NextShared ==
    \/ \E s \in Sessions : PollShared(s)
    \/ Connect
    \/ Disconnect

SpecShared == InitShared /\ [][NextShared]_vars

\* --------------------------------------- a client talking to the server
\* test/main.cpp with the transport between the two: both sessions made by
\* std::make_unique in a process where the library initialized.
InitExchange ==
    /\ Init
    /\ alive = Sessions
    /\ \A s \in Sessions : m_pInterface[s]
    /\ m_hConnection = k_HSteamNetConnection_Invalid
    /\ m_hListenSocket = k_HSteamListenSocket_Invalid
    /\ loopback

\* The calls of main, in any number and any order that keeps its discipline:
\* Initialize comes first, the Run thread is started once the server listens,
\* Connect is called once, after that, and Stop once the thread exists. Here
\* the client is the one that sends.
NextUpstream ==
    \/ fresh /\ ~listening /\ runPc = "none" /\ Initialize
    \/ listening /\ StartRunThread
    \/ RunEntry
    \/ RunWhile
    \/ RunPoll
    \/ RunReceiveMessages
    \/ RunSleep
    \/ fresh /\ runPc # "none" /\ Connect
    \/ Poll("Client")
    \/ SendMessageToServer
    \/ runPc # "none" /\ Stop
    \/ Disconnect

SpecUpstream == InitExchange /\ [][NextUpstream]_vars

\* The Run thread is scheduled.
FairSpecUpstream == SpecUpstream /\ WF_vars(Run)

\* The same program with the server as the one that sends.
NextDownstream ==
    \/ fresh /\ ~listening /\ runPc = "none" /\ Initialize
    \/ listening /\ StartRunThread
    \/ RunEntry
    \/ RunWhile
    \/ RunPoll
    \/ RunReceiveMessages
    \/ RunSleep
    \/ fresh /\ runPc # "none" /\ Connect
    \/ Poll("Client")
    \/ ClientReceiveMessages
    \/ BroadcastMessage
    \/ runPc # "none" /\ Stop
    \/ Disconnect

SpecDownstream == InitExchange /\ [][NextDownstream]_vars

\* The Run thread is scheduled, and the client's main loop keeps calling Poll
\* and ReceiveMessages (the for loop of main, without its bound).
FairSpecDownstream ==
    /\ SpecDownstream
    /\ WF_vars(Run)
    /\ WF_vars(Poll("Client"))
    /\ WF_vars(ClientReceiveMessages)

\* ----------------------------- the loops over m_vecClients, entry by entry
\* test/main.cpp again, with the two range-for loops over m_vecClients executed
\* one entry at a time: the one of ReceiveMessages on the thread that executes
\* Run, the one of BroadcastMessage on main. Nothing in Server.cpp keeps the
\* other thread, or the callback, from calling the server in between.
Begin(op) ==
    [op |-> op, at |-> 1, end |-> Len(m_vecClients), of |-> m_vecClients,
     seen |-> <<>>, torn |-> FALSE, cb |-> FALSE, closed |-> {}]

\* What the loop of thread t reads for its next entry. An iterator into a vector
\* that was modified since the loop began is invalid; reading through it is
\* undefined: the read gives any handle, or the process ends (SweepFault).
Entries(t) ==
    IF sweep[t].torn THEN 0..MaxHandle ELSE {m_vecClients[sweep[t].at]}

\* The thread has an entry left to visit.
AtEntry(t, op) ==
    /\ sweep[t].op = op
    /\ ~sweep[t].cb
    /\ sweep[t].at <= sweep[t].end

Visited(t, h, cb) ==
    [sweep EXCEPT ![t].at = @ + 1, ![t].seen = Append(@, h), ![t].cb = cb]

\* ReceiveMessages, up to its loop: if (!m_pInterface) return;
RunReceiveBegin ==
    /\ ~crashed
    /\ runPc = "ReceiveMessages"
    /\ sweep["Run"].op = "none"
    /\ calls' = <<>>
    /\ IF ~m_pInterface["Server"]
       THEN /\ runPc' = "sleep_for"
            /\ Record(Op("ReceiveMessages", TRUE, ""))
       ELSE /\ runPc' = runPc
            /\ RecordSweep(Op("ReceiveMessages", TRUE, ""), {},
                           [sweep EXCEPT !["Run"] = Begin("ReceiveMessages")])
    /\ UNCHANGED <<processVars, clientVars, serverVars, crashed, stopCalled, transportVars>>

\* The body of the loop of ReceiveMessages for one entry: the messages waiting
\* on hConn are taken, and OnMessageReceived is entered when there is a
\* non-empty one.
RunReceiveVisit ==
    /\ ~crashed
    /\ AtEntry("Run", "ReceiveMessages")
    /\ \E hConn \in Entries("Run") :
         LET s == IF hConn = link.srv THEN "Server" ELSE "Client"
             d == IF Receivable(hConn) THEN Drain(inbound[s], MaxMessagesPerCall)
                  ELSE [batch |-> <<>>, rest |-> inbound[s]]
             got == OnMessageReceived(hConn, d.batch)
         IN  /\ calls' = <<Call("ReceiveMessagesOnConnection", hConn, FALSE, Receivable(hConn))>>
             /\ inbound' = [inbound EXCEPT ![s] = d.rest]
             /\ received' = [received EXCEPT !["Server"] = @ \o got]
             /\ sweep' = Visited("Run", hConn, got # <<>>)
             /\ UNCHANGED http
    /\ UNCHANGED <<processVars, clientVars, serverVars, runPc, crashed, lastOp, stopTwice,
                   dispatchedTo, stopCalled, loopback, link, pending, accepted>>

\* OnMessageReceived returns.
CallbackReturn ==
    /\ ~crashed
    /\ sweep["Run"].cb
    /\ sweep' = [sweep EXCEPT !["Run"].cb = FALSE]
    /\ UNCHANGED http
    /\ UNCHANGED <<processVars, clientVars, serverVars, runPc, crashed, calls, lastOp,
                   stopTwice, dispatchedTo, stopCalled, transportVars>>

\* The loop of ReceiveMessages ends: the iterator has reached the end it was
\* given when the loop began.
RunReceiveEnd ==
    /\ ~crashed
    /\ sweep["Run"].op = "ReceiveMessages"
    /\ ~sweep["Run"].cb
    /\ sweep["Run"].at > sweep["Run"].end
    /\ runPc' = "sleep_for"
    /\ sweep' = [sweep EXCEPT !["Run"] = NoSweep]
    /\ UNCHANGED http
    /\ UNCHANGED <<processVars, clientVars, serverVars, crashed, calls, lastOp,
                   stopTwice, dispatchedTo, stopCalled, transportVars>>

\* BroadcastMessage on main, up to its loop.
BroadcastBegin ==
    /\ ~crashed
    /\ sweep["Main"].op = "none"
    /\ Len(accepted["Client"]) + Len(m_vecClients) <= MaxSends
    /\ calls' = <<>>
    /\ IF ~m_pInterface["Server"]
       THEN Record(Op("BroadcastMessage", TRUE, ""))
       ELSE RecordSweep(Op("BroadcastMessage", TRUE, ""), {},
                        [sweep EXCEPT !["Main"] = Begin("BroadcastMessage")])
    /\ UNCHANGED <<processVars, clientVars, serverVars, runPc, crashed, stopCalled,
                   transportVars>>

\* The body of the loop of BroadcastMessage for one entry.
BroadcastVisit ==
    /\ ~crashed
    /\ AtEntry("Main", "BroadcastMessage")
    /\ \E hConn \in Entries("Main") :
         /\ calls' = <<Send(hConn, "hello", Sendable(hConn))>>
         /\ sweep' = Visited("Main", hConn, FALSE)
         /\ UNCHANGED http
    /\ TransportStep(pending)
    /\ UNCHANGED <<processVars, clientVars, serverVars, runPc, crashed, lastOp, stopTwice,
                   dispatchedTo, stopCalled, received>>

\* The loop of BroadcastMessage ends.
BroadcastEnd ==
    /\ ~crashed
    /\ sweep["Main"].op = "BroadcastMessage"
    /\ sweep["Main"].at > sweep["Main"].end
    /\ sweep' = [sweep EXCEPT !["Main"] = NoSweep]
    /\ UNCHANGED http
    /\ UNCHANGED <<processVars, clientVars, serverVars, runPc, crashed, calls, lastOp,
                   stopTwice, dispatchedTo, stopCalled, transportVars>>

\* A loop reads through an invalid iterator, and the process ends.
SweepFault ==
    /\ ~crashed
    /\ \E t \in Threads : sweep[t].torn /\ ~sweep[t].cb /\ sweep[t].at <= sweep[t].end
    /\ crashed' = TRUE
    /\ UNCHANGED <<processVars, clientVars, serverVars, runPc, calls, lastOp, stopTwice,
                   dispatchedTo, stopCalled, transportVars, sweep, http>>

\* main is between two calls.
MainFree == sweep["Main"].op = "none"

NextSweep ==
    \/ MainFree /\ fresh /\ ~listening /\ runPc = "none" /\ Initialize
    \/ MainFree /\ listening /\ StartRunThread
    \/ RunEntry
    \/ RunWhile
    \/ RunPoll
    \/ RunReceiveBegin
    \/ RunReceiveVisit
    \/ CallbackReturn
    \/ RunReceiveEnd
    \/ RunSleep
    \/ MainFree /\ fresh /\ runPc # "none" /\ Connect
    \/ MainFree /\ Poll("Client")
    \/ MainFree /\ SendMessageToServer
    \/ BroadcastBegin
    \/ BroadcastVisit
    \/ BroadcastEnd
    \/ MainFree /\ runPc # "none" /\ Stop
    \/ sweep["Run"].cb /\ Stop
    \/ MainFree /\ Disconnect
    \/ SweepFault

SpecSweep == InitExchange /\ [][NextSweep]_vars

\* OnMessageReceived was called on session s for the k-th message the
\* transport took for s.
Delivered(s, k) == \E i \in 1..Len(received[s]) : received[s][i].id = k

\* The calls of OnMessageReceived on s so far: each for a non-empty message the
\* transport took, no message twice, in the order sent.
InOrderOnce(s) ==
    /\ \A i \in 1..Len(received[s]) :
          /\ received[s][i].id \in 1..Len(accepted[s])
          /\ accepted[s][received[s][i].id].msg # ""
    /\ \A i, j \in 1..Len(received[s]) : i < j => received[s][i].id < received[s][j].id

\* ------------------------------------------ a client with a backlog to drain
\* The n messages the server broadcast, all non-empty but the e-th (none for
\* e = 0), as the transport took them and as they wait for the client.
BacklogTaken(n, e) == [i \in 1..n |-> [msg |-> IF i = e THEN "" ELSE "hello", scope |-> i # e]]
BacklogWaiting(n, e) == [i \in 1..n |-> [msg |-> IF i = e THEN "" ELSE "hello", id |-> i]]

\* main after Initialize, Connect, the callbacks that established the
\* connection on both sides, and n broadcasts the client has not received yet.
InitBacklog ==
    /\ alive = Sessions
    /\ m_pInterface = [s \in Sessions |-> TRUE]
    /\ facade = "up"
    /\ realInits = 1
    /\ realKills = 0
    /\ m_hConnection = 1
    /\ m_hListenSocket = 1
    /\ listening = TRUE
    /\ m_vecClients = <<PeerHandle(1)>>
    /\ live = {PeerHandle(1)}
    /\ scen = [stage |-> "one", a |-> PeerHandle(1), b |-> 0, x |-> 0]
    /\ localState = "Connected"
    /\ downSince = FALSE
    /\ opened = {1}
    /\ ended = k_HSteamNetConnection_Invalid
    /\ late = NoLate
    /\ sweep = Idle
    /\ http = NewHttpServer
    /\ fresh = FALSE
    /\ m_isRunning = FALSE
    /\ runPc = "none"
    /\ crashed = FALSE
    /\ stopCalled = FALSE
    /\ stopTwice = FALSE
    /\ calls = <<>>
    /\ lastOp = Op("Poll", TRUE, "Server")
    /\ dispatchedTo = {}
    /\ loopback = TRUE
    /\ link = [cli |-> 1, srv |-> PeerHandle(1), st |-> "up", cliOpen |-> TRUE, srvOpen |-> TRUE]
    /\ pending = <<>>
    /\ received = NoMessages
    /\ \E n \in 0..MaxBacklog : \E e \in 0..n :
         /\ accepted = [NoMessages EXCEPT !["Client"] = BacklogTaken(n, e)]
         /\ inbound = [NoMessages EXCEPT !["Client"] = BacklogWaiting(n, e)]

\* The client's loop once the server has gone quiet, and its Disconnect.
NextBacklog ==
    \/ Poll("Client")
    \/ ClientReceiveMessages
    \/ Disconnect

SpecBacklog == InitBacklog /\ [][NextBacklog]_vars

\* ------------------------------------------------- construction, destruction
\* A process that has constructed no session yet.
InitProcess ==
    /\ alive = {}
    /\ m_pInterface = [s \in Sessions |-> FALSE]
    /\ m_hConnection = k_HSteamNetConnection_Invalid
    /\ m_hListenSocket = k_HSteamListenSocket_Invalid
    /\ m_vecClients = <<>>
    /\ m_isRunning = FALSE
    /\ runPc = "none"
    /\ crashed = FALSE
    /\ calls = <<>>
    /\ lastOp = Op("main", TRUE, "")
    /\ stopTwice = FALSE
    /\ live = {}
    /\ scen = [stage |-> "fresh", a |-> 0, b |-> 0, x |-> 0]
    /\ localState = "NoConnection"
    /\ downSince = FALSE
    /\ stopCalled = FALSE
    /\ facade = "down"
    /\ realInits = 0
    /\ realKills = 0
    /\ opened = {}
    /\ ended = k_HSteamNetConnection_Invalid
    /\ late = NoLate
    /\ sweep = Idle
    /\ http = NewHttpServer
    /\ fresh = TRUE
    /\ listening = FALSE
    /\ dispatchedTo = {}
    /\ loopback = FALSE
    /\ link = NoLink
    /\ pending = <<>>
    /\ inbound = NoMessages
    /\ accepted = NoMessages
    /\ received = NoMessages

\* ConnectionManager::ConnectionManager, as the base of a new session s.
\* GameNetworkingSockets_Init on a library that is up returns true and does
\* nothing else; on one that is down it initializes it, or fails. The derived
\* class adds no constructor: the handle of a default-initialized session is
\* indeterminate, hnd is its value.
Construct(s) ==
    /\ ~crashed
    /\ s \notin alive
    /\ alive' = alive \cup {s}
    /\ \E ok \in BOOLEAN :
         /\ facade = "up" => ok
         /\ (facade = "down" /\ ok) => realInits < MaxInits
         /\ m_pInterface' = [m_pInterface EXCEPT ![s] = ok]
         /\ facade' = IF ok THEN "up" ELSE facade
         /\ realInits' = IF facade = "down" /\ ok THEN realInits + 1 ELSE realInits
         /\ calls' = <<Call("GameNetworkingSockets_Init", 0, FALSE, ok)>>
         /\ Record(Op("construct", ok, s))
    /\ \E hnd \in 0..MaxHandle :
         IF s = "Client"
         THEN /\ m_hConnection' = hnd
              /\ UNCHANGED m_hListenSocket
         ELSE /\ m_hListenSocket' = hnd
              /\ UNCHANGED m_hConnection
    /\ UNCHANGED <<realKills, m_vecClients, m_isRunning, live, scen, listening,
                   localState, downSince, opened, ended, late, fresh, runPc, crashed,
                   stopCalled, transportVars>>

\* A destructor that leaves the library as it is.
DestroyKeepsLibrary(s) ==
    /\ ~crashed
    /\ s \in alive
    /\ alive' = alive \ {s}
    /\ m_pInterface' = [m_pInterface EXCEPT ![s] = FALSE]
    /\ calls' = <<>>
    /\ Record(Op("destroy", TRUE, s))
    /\ IF s = "Client"
       THEN /\ m_hConnection' = k_HSteamNetConnection_Invalid
            /\ localState' = "NoConnection"
            /\ downSince' = FALSE
            /\ opened' = {}
            /\ ended' = k_HSteamNetConnection_Invalid
            /\ late' = NoLate
            /\ fresh' = TRUE
            /\ UNCHANGED serverVars
       ELSE /\ m_hListenSocket' = k_HSteamListenSocket_Invalid
            /\ m_vecClients' = <<>>
            /\ m_isRunning' = FALSE
            /\ live' = {}
            /\ scen' = [stage |-> "fresh", a |-> 0, b |-> 0, x |-> 0]
            /\ listening' = FALSE
            /\ UNCHANGED clientVars
    /\ UNCHANGED <<facade, realInits, realKills, runPc, crashed, stopCalled, transportVars>>

\* ConnectionManager::~ConnectionManager, at the end of session s.
\* GameNetworkingSockets_Kill shuts the library down if it is up, whoever else
\* uses it: its connections and the callbacks it had queued go with it. Neither
\* derived class has a destructor: nothing is closed first.
Destroy(s) ==
    /\ ~crashed
    /\ s \in alive
    /\ facade = "up" => realKills < MaxInits
    /\ alive' = alive \ {s}
    /\ m_pInterface' = [m_pInterface EXCEPT ![s] = FALSE]
    /\ facade' = "down"
    /\ realKills' = IF facade = "up" THEN realKills + 1 ELSE realKills
    /\ calls' = <<Call("GameNetworkingSockets_Kill", 0, FALSE, facade = "up")>>
    /\ Record(Op("destroy", TRUE, s))
    /\ IF s = "Client"
       THEN /\ m_hConnection' = k_HSteamNetConnection_Invalid
            /\ localState' = "NoConnection"
            /\ downSince' = FALSE
            /\ opened' = {}
            /\ ended' = k_HSteamNetConnection_Invalid
            /\ late' = NoLate
            /\ fresh' = TRUE
            /\ UNCHANGED serverVars
       ELSE /\ m_hListenSocket' = k_HSteamListenSocket_Invalid
            /\ m_vecClients' = <<>>
            /\ m_isRunning' = FALSE
            /\ live' = {}
            /\ scen' = [stage |-> "fresh", a |-> 0, b |-> 0, x |-> 0]
            /\ listening' = FALSE
            /\ UNCHANGED clientVars
    /\ IF facade = "up"
       THEN /\ link' = NoLink
            /\ pending' = <<>>
            /\ inbound' = NoMessages
       ELSE UNCHANGED <<link, pending, inbound>>
    /\ UNCHANGED <<realInits, runPc, crashed, stopCalled, loopback, accepted, received>>

NextLifetime ==
    \/ \E s \in Sessions : Construct(s)
    \/ \E s \in Sessions : Destroy(s)

SpecLifetime == InitProcess /\ [][NextLifetime]_vars

\* A session that outlived the library calls through its m_pInterface, which
\* points to what GameNetworkingSockets_Kill destroyed: the process may end.
DanglingFault ==
    /\ ~crashed
    /\ facade = "down"
    /\ \E s \in alive : m_pInterface[s]
    /\ crashed' = TRUE
    /\ UNCHANGED <<processVars, clientVars, serverVars, runPc, calls, lastOp, stopTwice,
                   dispatchedTo, stopCalled, transportVars, sweep, http>>

\* The two sessions of test/main.cpp, polled by main, and their ends: either
\* may be destroyed, and constructed again, while the other goes on.
NextTeardown ==
    \/ "Server" \in alive /\ ~listening /\ Initialize
    \/ "Client" \in alive /\ fresh /\ listening /\ Connect
    \/ \E s \in alive : Poll(s)
    \/ "Client" \in alive /\ Disconnect
    \/ "Server" \in alive /\ Stop
    \/ \E s \in Sessions : Construct(s)
    \/ \E s \in Sessions : Destroy(s)
    \/ DanglingFault

SpecTeardown == InitExchange /\ [][NextTeardown]_vars

\* ================================================================== claims

\* C1: after any sequence of status events, the set of handles in the registry
\* is exactly the set of handles whose most recent Connected event has not been
\* followed by a terminal event or by a close the server issued in Stop().
C1_RegistryIsLiveSet == Range(m_vecClients) = live

\* C2: IsConnected() is true if and only if a Connect succeeded, a Connected
\* event for the primary connection was processed, and no terminal event or
\* Disconnect happened since; it is false while the client is Connecting.
C2_IsConnectedIffConnected == IsConnected <=> localState = "Connected"

\* C3: once a terminal event for the primary connection has been processed, or
\* Disconnect() called, and until the next successful Connect, IsConnected() is
\* false and a send call issues no transport send.
C3_DownMeansNoSend ==
    downSince =>
        /\ ~IsConnected
        /\ lastOp.op = "SendMessageToServer" => calls = <<>>

\* C4: no listener: from a successful Connect on, with no Connected event
\* delivered, IsConnected() is false; and after a Poll that processed the
\* terminal event the primary handle is invalid.
C4_NoListener ==
    /\ localState = "Connecting" => ~IsConnected
    /\ (lastOp.op = "Poll" /\ m_pInterface["Client"] /\ downSince)
          => m_hConnection = k_HSteamNetConnection_Invalid

\* C5: Connected(A), Connected(B) with A # B, then a terminal event for one of
\* them: the registry is <<>>, <<A>>, <<A, B>>, and then holds exactly the
\* handle that did not close.
C5_AcceptTwoCloseOne ==
    /\ scen.stage = "fresh" => m_vecClients = <<>>
    /\ scen.stage = "one" => m_vecClients = <<scen.a>>
    /\ scen.stage = "two" => m_vecClients = <<scen.a, scen.b>>
    /\ scen.stage = "closed" =>
          m_vecClients = <<IF scen.x = scen.a THEN scen.b ELSE scen.a>>

\* The first of the two accepted peers closed, and the second one is left.
C5_Witness ==
    /\ scen.stage = "closed"
    /\ scen.x = scen.a
    /\ m_vecClients = <<scen.b>>

C7_StopTwice ==
    lastOp.op = "Stop" =>
        /\ m_vecClients = <<>>
        /\ m_hListenSocket = k_HSteamListenSocket_Invalid
        /\ ~m_isRunning
        /\ stopTwice => calls = <<>>

C9_RunReturnsAfterStop == stopCalled ~> (runPc = "returned")

\* C10: Connect returns false exactly when the facade is unavailable, the
\* address is malformed, or the transport rejects the connection; otherwise it
\* returns true with the new handle as primary connection. A failed Connect
\* from NoConnection leaves the client in NoConnection.
C10_ConnectResult ==
    [][lastOp'.op = "Connect" =>
        LET rejected == calls' # <<>> /\ ~calls'[1].ok
        IN  /\ ~lastOp'.ret <=>
                  (~m_pInterface["Client"] \/ ~ParseString(lastOp'.addr) \/ rejected)
            /\ lastOp'.ret =>
                  /\ Len(calls') = 1
                  /\ calls'[1].fn = "ConnectByIPAddress"
                  /\ m_hConnection' = calls'[1].h
                  /\ m_hConnection' # k_HSteamNetConnection_Invalid
            /\ (~lastOp'.ret /\ m_hConnection = k_HSteamNetConnection_Invalid)
                  => m_hConnection' = k_HSteamNetConnection_Invalid
    ]_vars

\* A Connect that the transport took.
C10_Witness ==
    /\ lastOp.op = "Connect"
    /\ lastOp.ret
    /\ calls # <<>>
    /\ m_hConnection = calls[1].h

\* C11: a second Connect while a primary connection is outstanding is a no-op
\* or is rejected: at most one connection created by the client is open without
\* having been closed by it, and while one is open it is the primary handle.
C11_SinglePrimary ==
    /\ Cardinality(opened) <= 1
    /\ opened # {} => m_hConnection \in opened

\* C12: Disconnect() without a primary connection issues no transport call and
\* changes nothing; with one, it issues exactly one lingering CloseConnection
\* for the primary handle and leaves the handle invalid, so that a second
\* Disconnect() finds nothing to do.
C12_DisconnectOnce ==
    [][lastOp'.op = "Disconnect" =>
        IF localState = "NoConnection"
        THEN /\ calls' = <<>>
             /\ m_hConnection' = m_hConnection
        ELSE /\ calls' = <<Call("CloseConnection", m_hConnection, TRUE, TRUE)>>
             /\ m_hConnection' = k_HSteamNetConnection_Invalid
    ]_vars

\* C13: when the facade failed to initialize, every operation of the client
\* and of the server makes no transport call, does not fault, and leaves the
\* primary handle, the listen handle and the registry as they were; Connect and
\* Initialize return false.
C13_NullFacadeNoOp ==
    [][(\A s \in Sessions : ~m_pInterface[s]) =>
        /\ calls' = <<>>
        /\ ~crashed'
        /\ m_hConnection' = m_hConnection
        /\ m_hListenSocket' = m_hListenSocket
        /\ m_vecClients' = m_vecClients
        /\ lastOp'.op \in {"Connect", "Initialize"} => ~lastOp'.ret
    ]_vars

\* C16: no handle is kept past a terminal event for it: a handle in the
\* registry has had no terminal event since its Connected event, and the
\* primary handle is not the one the client last processed a terminal event for.
C16_NoStaleHandle ==
    /\ Range(m_vecClients) \subseteq live
    /\ ended # k_HSteamNetConnection_Invalid => m_hConnection # ended

\* C17: Initialize returns true exactly when the facade is available and the
\* transport created the endpoint; whenever the server is not listening its
\* listen handle is invalid, and a Stop() in that state issues no
\* CloseListenSocket.
C17_ListenHandle ==
    [][/\ lastOp'.op = "Initialize" =>
            (lastOp'.ret <=> (m_pInterface["Server"] /\ calls' # <<>> /\ calls'[1].ok))
       /\ ~listening' => m_hListenSocket' = k_HSteamListenSocket_Invalid
       /\ (lastOp'.op = "Stop" /\ ~listening) =>
            \A i \in 1..Len(calls') : calls'[i].fn # "CloseListenSocket"
    ]_vars

\* C18: before any Connect call IsConnected() is false, and Disconnect(), a
\* send and ReceiveMessages issue no transport call.
C18_FreshClient ==
    fresh =>
        /\ ~IsConnected
        /\ ~crashed
        /\ lastOp.op \in {"Disconnect", "SendMessageToServer", "ReceiveMessages"}
              => calls = <<>>

\* C14: over any sequence of constructions and destructions of sessions, the
\* library is initialized for real at most once and shut down for real at most
\* once, and it is not shut down while a session that acquired it is alive.
C14_OneInitOneKill ==
    /\ realInits <= 1
    /\ realKills <= 1
    /\ \A s \in alive : m_pInterface[s] => facade = "up"

\* C15: a Poll on either session of a process that has both changes the
\* registry only if a callback carrying the server's user data was run, and
\* the primary handle only if one carrying the client's was; callbacks
\* without user data are dropped: no call, no change. What the server's
\* callbacks connected is in the registry whichever session polled.
C15_NoCrossTalk ==
    [][lastOp'.op = "Poll" =>
        /\ "Server" \notin dispatchedTo' =>
              /\ m_vecClients' = m_vecClients
              /\ \A i \in 1..Len(calls') : calls'[i].fn # "AcceptConnection"
        /\ "Client" \notin dispatchedTo' => m_hConnection' = m_hConnection
        /\ dispatchedTo' \subseteq {"none"} => calls' = <<>>
        /\ live' \subseteq Range(m_vecClients')
    ]_vars

\* The client's Poll ran a callback of the server's: the registry took the
\* peer, the connected client stayed as it was.
C15_Witness ==
    /\ lastOp.op = "Poll"
    /\ lastOp.addr = "Client"
    /\ dispatchedTo = {"Server"}
    /\ Len(m_vecClients) = 2
    /\ localState = "Connected"
    /\ IsConnected

\* C19: with the Run thread driving Poll and ReceiveMessages and the client's
\* handle in the registry, every non-empty message the client sends while
\* connected is eventually passed to the server's OnMessageReceived with the
\* handle of the sending peer, exactly once and in the order sent.
C19_ClientToServerDelivery ==
    /\ [](/\ InOrderOnce("Server")
          /\ \A i \in 1..Len(received["Server"]) : received["Server"][i].h = link.srv)
    /\ \A k \in 1..MaxSends :
          (/\ Len(accepted["Server"]) >= k
           /\ accepted["Server"][k].scope
           /\ runPc # "none"
           /\ ~stopCalled)
          ~> (Delivered("Server", k) \/ stopCalled)

\* C20: every non-empty message the server broadcasts while the client's handle
\* is in the registry is eventually passed to the client's OnMessageReceived,
\* exactly once, unless the client stops being connected; the client keeps
\* calling Poll and ReceiveMessages.
C20_ServerToClientDelivery ==
    /\ []InOrderOnce("Client")
    /\ \A k \in 1..MaxSends :
          (Len(accepted["Client"]) >= k /\ accepted["Client"][k].scope)
          ~> (Delivered("Client", k) \/ link.st # "up")

\* Two broadcasts reached a connected client, which has received both.
C20_Witness ==
    /\ Len(accepted["Client"]) = 2
    /\ \A k \in 1..2 : accepted["Client"][k].scope /\ Delivered("Client", k)
    /\ link.st = "up"
    /\ IsConnected

\* The smaller of two numbers.
Min(a, b) == IF a < b THEN a ELSE b

\* C21: Client::ReceiveMessages makes no transport call when the client is not
\* connected; when connected, one call takes the first 16 messages waiting (all
\* of them if fewer) and hands each to the callback once, in queue order, so
\* that with no new arrivals a backlog of n is drained after ceil(n/16) calls.
C21_ClientDrain ==
    [][lastOp'.op = "ReceiveMessages" =>
        IF localState # "Connected"
        THEN calls' = <<>> /\ received' = received
        ELSE LET q == inbound["Client"]
                 n == Min(Len(q), 16)
             IN  /\ calls' = <<Call("ReceiveMessagesOnConnection", m_hConnection, FALSE, TRUE)>>
                 /\ inbound'["Client"] = SubSeq(q, n + 1, Len(q))
                 /\ received'["Client"] =
                       received["Client"] \o [i \in 1..n |-> [h |-> m_hConnection, id |-> q[i].id]]
    ]_vars

\* C22: one call of Server::ReceiveMessages visits every handle in the registry
\* once, in registry order, whatever the drain of an earlier peer answered (a
\* negative count included), hands each message to the callback with the handle
\* it was drained from, and leaves the registry as it was.
C22_ReceiveSweep ==
    [][(lastOp'.op = "ReceiveMessages" /\ m_pInterface["Server"]) =>
        /\ \A h \in Range(m_vecClients) :
              Cardinality({i \in 1..Len(calls') : calls'[i].h = h}) = 1
        /\ \A i \in 1..Len(calls') :
              /\ calls'[i].fn = "ReceiveMessagesOnConnection"
              /\ calls'[i].h \in Range(m_vecClients)
        /\ \A i, j \in 1..Len(calls') :
              i < j => \E a, b \in 1..Len(m_vecClients) :
                          a < b /\ m_vecClients[a] = calls'[i].h /\ m_vecClients[b] = calls'[j].h
        /\ \A i \in Len(received["Server"]) + 1..Len(received'["Server"]) :
              received'["Server"][i].h \in Range(m_vecClients)
        /\ m_vecClients' = m_vecClients
    ]_vars

\* C23: the client's status handler ignores every event whose handle is not
\* the primary handle: such an event leaves the primary handle as it is and
\* issues no transport call, a late terminal event for a handle the client
\* closed with Disconnect() included. So whatever a Poll of the client runs,
\* the only call it can issue is one CloseConnection for the primary handle.
C23_StaleEventsIgnored ==
    [][lastOp'.op = "Poll" =>
        /\ \A ev \in Events("Client") :
              ev.m_hConn # m_hConnection =>
                  ClientHandleConnectionStatusChanged(Fields, ev) = Fields
        /\ Len(calls') <= 1
        /\ \A i \in 1..Len(calls') :
              calls'[i] = Call("CloseConnection", m_hConnection, FALSE, TRUE)
        /\ m_hConnection' \in {m_hConnection, k_HSteamNetConnection_Invalid}
        /\ calls' = <<>> => m_hConnection' = m_hConnection
    ]_vars

\* The client closed the connection it had made with Disconnect(), and a Poll
\* then ran a terminal event for that handle: no call, and still no primary
\* connection.
C23_Witness ==
    /\ lastOp.op = "Poll"
    /\ ~fresh
    /\ late.ran
    /\ late.h # k_HSteamNetConnection_Invalid
    /\ m_hConnection = k_HSteamNetConnection_Invalid
    /\ calls = <<>>

\* C24: from Connecting or Connected, a ClosedByPeer or ProblemDetectedLocally
\* event for the primary handle moves the client to NoConnection: the handler
\* issues exactly one CloseConnection, for that handle, and the primary handle
\* is invalid when it returns. A Poll that did not run such an event leaves
\* the client where it was.
C24_TerminalEventClosesPrimary ==
    [][(lastOp'.op = "Poll" /\ localState \in {"Connecting", "Connected"}) =>
        /\ \A ev \in Events("Client") :
              (ev.m_eState \in TerminalStates /\ ev.m_hConn = m_hConnection) =>
                  LET st1 == ClientHandleConnectionStatusChanged(Fields, ev)
                  IN  /\ st1.calls = <<Call("CloseConnection", m_hConnection, FALSE, TRUE)>>
                      /\ st1.m_hConnection = k_HSteamNetConnection_Invalid
        /\ IF localState' = "NoConnection"
           THEN /\ calls' = <<Call("CloseConnection", m_hConnection, FALSE, TRUE)>>
                /\ m_hConnection' = k_HSteamNetConnection_Invalid
           ELSE /\ calls' = <<>>
                /\ m_hConnection' = m_hConnection
    ]_vars

\* A Poll ran the terminal event of the connection the client had made: the
\* handle is closed and forgotten.
C24_Witness ==
    /\ lastOp.op = "Poll"
    /\ ~fresh
    /\ localState = "NoConnection"
    /\ ended # k_HSteamNetConnection_Invalid
    /\ calls = <<Call("CloseConnection", ended, FALSE, TRUE)>>
    /\ m_hConnection = k_HSteamNetConnection_Invalid

\* C25: on a Connecting event the server calls AcceptConnection for the event's
\* handle exactly once; if the transport refuses, it issues CloseConnection for
\* that handle right after; either way the registry is as it was. In the calls
\* of a Poll, every refused AcceptConnection is followed by the CloseConnection
\* of the same handle.
C25_AcceptOrClose ==
    [][lastOp'.op = "Poll" =>
        /\ \A ev \in Events("Server") : \A acc \in SUBSET {ev.m_hConn} :
              ev.m_eState = "Connecting" =>
                  LET h == ev.m_hConn
                      st1 == ServerHandleConnectionStatusChanged(Fields, ev, acc)
                  IN  /\ st1.m_vecClients = m_vecClients
                      /\ st1.calls =
                            IF h \in acc
                            THEN <<Call("AcceptConnection", h, FALSE, TRUE)>>
                            ELSE <<Call("AcceptConnection", h, FALSE, FALSE),
                                   Call("CloseConnection", h, FALSE, TRUE)>>
        /\ \A i \in 1..Len(calls') :
              (calls'[i].fn = "AcceptConnection" /\ ~calls'[i].ok) =>
                  /\ i < Len(calls')
                  /\ calls'[i + 1] = Call("CloseConnection", calls'[i].h, FALSE, TRUE)
    ]_vars

\* A Poll ran two Connecting events on an empty registry: one connection was
\* accepted, the other was refused and closed, and the registry is still empty.
C25_Witness ==
    /\ lastOp.op = "Poll"
    /\ Len(calls) = 3
    /\ calls[1].fn = "AcceptConnection" /\ calls[1].ok
    /\ calls[2].fn = "AcceptConnection" /\ ~calls[2].ok
    /\ calls[3] = Call("CloseConnection", calls[2].h, FALSE, TRUE)
    /\ m_vecClients = <<>>

\* C26: the registry never holds the same handle twice, and a Connected event
\* for a handle that is already in the registry leaves the registry as it is.
C26_NoDuplicateEntry ==
    /\ \A i, j \in 1..Len(m_vecClients) : i # j => m_vecClients[i] # m_vecClients[j]
    /\ \A h \in Range(m_vecClients) :
          ServerHandleConnectionStatusChanged(Fields, Event("Server", "Connected", h), {}).m_vecClients
              = m_vecClients

\* v without its first entry equal to x; v itself if there is none.
RECURSIVE RemoveFirst(_, _)
RemoveFirst(v, x) ==
    IF v = <<>> THEN <<>>
    ELSE IF Head(v) = x THEN Tail(v)
    ELSE <<Head(v)>> \o RemoveFirst(Tail(v), x)

\* C27: on a terminal event for handle h the server removes the first entry
\* equal to h from the registry and changes nothing else: every other entry
\* stays, with its value and its place among the others; if h is absent the
\* registry is unchanged.
C27_RemoveFirstOnly ==
    \A h \in Handles : \A e \in TerminalStates :
        ServerHandleConnectionStatusChanged(Fields, Event("Server", e, h), {}).m_vecClients
            = RemoveFirst(m_vecClients, h)

\* The number of entries of seq that are in S.
Count(seq, S) == Cardinality({i \in 1..Len(seq) : seq[i] \in S})

\* C28: for every ClosedByPeer or ProblemDetectedLocally event the server
\* processes it issues exactly one CloseConnection for the event's handle,
\* whether or not the handle is in the registry and whether or not Stop() has
\* closed it already. With the callbacks a Poll finds known: the Poll, on the
\* main thread or in Run, closes the server's end of the connection once per
\* terminal event for it and once per refused accept.
C28_CloseOnEveryTerminalEvent ==
    [][(lastOp'.op = "Poll" /\ (runPc' = runPc \/ runPc = "Poll")) =>
        /\ \A h \in Handles : \A e \in TerminalStates :
              ServerHandleConnectionStatusChanged(Fields, Event("Server", e, h), {}).calls
                  = <<Call("CloseConnection", h, FALSE, TRUE)>>
        /\ link.srv # k_HSteamNetConnection_Invalid =>
              Count(calls', {Call("CloseConnection", link.srv, FALSE, TRUE)})
                  = Count(pending, {Event("Server", e, link.srv) : e \in TerminalStates})
                    + Count(calls', {Call("AcceptConnection", link.srv, FALSE, FALSE)})
    ]_vars

\* The client disconnected, Stop() closed the server's end before the server
\* saw it, and a Poll then ran the ClosedByPeer event: the handle, no longer in
\* the registry, is closed once more.
C28_Witness ==
    /\ lastOp.op = "Poll"
    /\ stopCalled
    /\ link.srv # k_HSteamNetConnection_Invalid
    /\ calls = <<Call("CloseConnection", link.srv, FALSE, TRUE)>>
    /\ m_vecClients = <<>>

\* C29: the registry is never modified while a loop of BroadcastMessage or of
\* ReceiveMessages is iterating it, and a loop that ends has run its body once
\* for each entry the registry had, in order: no peer skipped, none visited
\* twice. Run executes on its own thread while main calls BroadcastMessage and
\* Stop, and OnMessageReceived may call Stop.
C29_SweepUndisturbed ==
    [][\A t \in Threads :
          /\ sweep'[t].op # "none" => ~sweep'[t].torn
          /\ (sweep[t].op # "none" /\ sweep'[t].op = "none")
                => sweep[t].seen = sweep[t].of]_vars

\* C30: every iteration of Run is Poll, then ReceiveMessages, then the sleep:
\* the thread goes from the test of m_isRunning to Poll or out of Run, by what
\* the flag is at the test, from Poll to ReceiveMessages by executing Poll,
\* from ReceiveMessages to the sleep by executing ReceiveMessages, and from the
\* sleep to the test. The flag is looked at nowhere else: Run returns from the
\* test only, and ReceiveMessages is entered from the Poll of the iteration only.
C30_RunIteration ==
    [][runPc' # runPc =>
          /\ runPc = "while" =>
                runPc' = (IF m_isRunning THEN "Poll" ELSE "returned")
          /\ runPc = "Poll" => runPc' = "ReceiveMessages" /\ lastOp'.op = "Poll"
          /\ runPc = "ReceiveMessages" =>
                runPc' = "sleep_for" /\ lastOp'.op = "ReceiveMessages"
          /\ runPc = "sleep_for" => runPc' = "while"
          /\ runPc' = "returned" => runPc = "while" /\ ~m_isRunning
          /\ runPc' = "ReceiveMessages" => runPc = "Poll"
          /\ runPc' = "Poll" => runPc = "while" /\ m_isRunning]_vars

\* Stop was called while the thread was inside an iteration, and the thread
\* went on to ReceiveMessages and is now at the sleep of that iteration.
C30_Witness ==
    /\ runPc = "sleep_for"
    /\ stopCalled
    /\ ~m_isRunning
    /\ lastOp.op = "ReceiveMessages"

\* C31: one Poll handles every pending status event, one handler call per
\* event, in queue order: what a Poll does with a queue of two is what handling
\* the first and then the second does. A Connected event followed in the same
\* Poll by a terminal event for the same handle leaves the handle out of the
\* registry; the terminal event followed by the Connected event leaves it in.
C31_PollInOrder ==
    Len(m_vecClients) < MaxRegistry =>
        /\ \A q \in Batches({"Server"}, MaxBatch) : \A acc \in SUBSET Proposed(q) :
              Len(q) = 2 =>
                 RunCallbacks(Fields, q, acc)
                    = RunCallbacks(RunCallbacks(Fields, <<q[1]>>, acc), <<q[2]>>, acc)
        /\ \A h \in Handles : \A e \in TerminalStates :
              LET up == Event("Server", "Connected", h)
                  down == Event("Server", e, h)
              IN  /\ h \notin Range(RunCallbacks(Fields, <<up, down>>, {}).m_vecClients)
                  /\ h \in Range(RunCallbacks(Fields, <<down, up>>, {}).m_vecClients)

C33_ReleasedOnce ==
    [][lastOp'.op = "ReceiveMessages" =>
          \A s \in Sessions :
             Len(inbound'[s]) < Len(inbound[s]) =>
                LET taken == SubSeq(inbound[s], 1, Len(inbound[s]) - Len(inbound'[s]))
                IN  Released(taken) = taken]_vars

\* C34: admission is unconditional. Whatever the registry holds, the server's
\* handler calls AcceptConnection first for a Connecting event and leaves the
\* registry as it is, and appends the handle of a Connected event, keeping
\* every entry; and no operation but Poll and Stop changes the registry.
C34_UnconditionalAdmission ==
    [][/\ \A h \in Handles : \A acc \in SUBSET {h} :
             LET r == ServerHandleConnectionStatusChanged(Fields, Event("Server", "Connecting", h), acc)
                 c == ServerHandleConnectionStatusChanged(Fields, Event("Server", "Connected", h), acc)
             IN  /\ Head(r.calls) = Call("AcceptConnection", h, FALSE, h \in acc)
                 /\ r.m_vecClients = m_vecClients
                 /\ c.m_vecClients = Append(m_vecClients, h)
                 /\ c.calls = <<>>
       /\ lastOp'.op \notin {"Poll", "Stop"} => m_vecClients' = m_vecClients]_vars

\* The registry was full, and a Poll accepted one more connection.
C34_Witness ==
    /\ lastOp.op = "Poll"
    /\ Len(m_vecClients) = MaxRegistry
    /\ \E h \in Handles : calls = <<Call("AcceptConnection", h, FALSE, TRUE)>>

\* C35: once Stop() has issued CloseConnection for a peer handle the server
\* issues no send and no receive on that handle. For a Stop() that runs while
\* a loop of ReceiveMessages or of BroadcastMessage is in progress on the other
\* thread: the entries the loop goes on to visit are not handles that Stop()
\* closed.
C35_NoUseAfterStop ==
    [][\A t \in Threads :
          Len(sweep'[t].seen) > Len(sweep[t].seen) =>
             sweep'[t].seen[Len(sweep'[t].seen)] \notin sweep[t].closed]_vars

\* C36: after Stop() has returned the registry stays empty until Initialize is
\* called again: a Poll that runs after Stop(), the one of the iteration of Run
\* that was in progress included, adds no handle.
C36_EmptyAfterStop ==
    (stopCalled /\ ~listening) => m_vecClients = <<>>

\* C37: the client issues CloseConnection at most once for a handle it got
\* from Connect, however Disconnect() and the terminal events interleave: every
\* close is for a connection it created and has not closed. Every send and
\* every receive it issues is on the handle its most recent successful Connect
\* returned: the primary handle, which only a successful Connect sets to
\* something valid, and which names a connection the client created.
C37_CloseOnceUseLatest ==
    [][/\ \A i \in 1..Len(calls') :
             /\ calls'[i].fn = "CloseConnection" => calls'[i].h \in opened
             /\ calls'[i].fn \in {"SendMessageToConnection", "ReceiveMessagesOnConnection"}
                   => calls'[i].h = m_hConnection /\ calls'[i].h \in opened
       /\ (m_hConnection' # m_hConnection /\ m_hConnection' # k_HSteamNetConnection_Invalid)
             => /\ lastOp'.op = "Connect"
                /\ lastOp'.ret
                /\ m_hConnection' = calls'[1].h]_vars

\* ------------------------------------------------- HttpServer: operations
\* Everything outside the HttpServer: no operation of it touches a session.
sessionVars == <<m_pInterface, m_hConnection, m_hListenSocket, m_vecClients, m_isRunning,
                 runPc, crashed, calls, lastOp, stopTwice, live, scen, localState,
                 downSince, stopCalled, alive, facade, realInits, realKills, opened,
                 ended, late, fresh, listening, dispatchedTo, loopback, link, pending,
                 inbound, accepted, received, sweep>>

Usable == http.alive /\ ~http.crashed
Called(h, fn) == [h EXCEPT !.last = fn, !.again = (fn = "Stop" /\ http.last = "Stop")]

\* HttpServer::Get(path, handler)
HttpServerGet ==
    /\ Usable
    /\ \E path \in Paths :
         http' = Called([http EXCEPT !.routes = @ \cup {<<"GET", path>>}], "Get")
    /\ UNCHANGED sessionVars

\* HttpServer::Post(path, handler)
HttpServerPost ==
    /\ Usable
    /\ \E path \in Paths :
         http' = Called([http EXCEPT !.routes = @ \cup {<<"POST", path>>}], "Post")
    /\ UNCHANGED sessionVars

\* HttpServer::Run(port) is entered, on a thread of its own: the call blocks.
HttpServerRun ==
    /\ Usable
    /\ http.pc \in {"none", "returned", "threw"}
    /\ http' = Called([http EXCEPT !.pc = "listen"], "Run")
    /\ UNCHANGED sessionVars

\* m_server->listen("0.0.0.0", port) binds the port or fails; the port, and
\* whether it is free, are the environment's. On failure Run throws.
HttpServerBind ==
    /\ Usable
    /\ http.pc = "listen"
    /\ \/ http' = [http EXCEPT !.pc = "bound", !.svr_sock = "open"]
       \/ http' = [http EXCEPT !.pc = "threw"]
    /\ UNCHANGED sessionVars

\* listen() starts to accept: from here on is_running() is true.
HttpServerListen ==
    /\ Usable
    /\ http.pc = "bound"
    /\ http' = [http EXCEPT !.pc = "serving", !.is_running = TRUE]
    /\ UNCHANGED sessionVars

\* A request is served: by its route, or by the error handler of the constructor.
HttpServerServe ==
    /\ Usable
    /\ http.pc = "serving"
    /\ http.svr_sock = "open"
    /\ \E r \in Routes :
         http' = [http EXCEPT !.status = IF r \in http.routes THEN 200 ELSE 404]
    /\ UNCHANGED sessionVars

\* listen() finds the socket closed and returns true: Run returns.
HttpServerRunReturn ==
    /\ Usable
    /\ http.pc = "serving"
    /\ http.svr_sock = "invalid"
    /\ http' = [http EXCEPT !.pc = "returned", !.is_running = FALSE]
    /\ UNCHANGED sessionVars

\* HttpServer::Stop(), on main.
HttpStop ==
    /\ Usable
    /\ http' = Called(HttpServerStop(http), "Stop")
    /\ UNCHANGED sessionVars

\* ~HttpServer(): Stop(), then m_server is deleted. A thread still inside
\* listen() goes on using the deleted httplib::Server.
HttpServerDestroy ==
    /\ Usable
    /\ \E fault \in IF http.pc \in {"listen", "bound", "serving"} THEN BOOLEAN ELSE {FALSE} :
         http' = [Called(HttpServerStop(http), "~HttpServer")
                    EXCEPT !.alive = FALSE, !.crashed = fault]
    /\ UNCHANGED sessionVars

NextHttp ==
    \/ HttpServerGet
    \/ HttpServerPost
    \/ HttpServerRun
    \/ HttpServerBind
    \/ HttpServerListen
    \/ HttpServerServe
    \/ HttpServerRunReturn
    \/ HttpStop
    \/ HttpServerDestroy

\* A program that uses the HttpServer alone.
InitHttp == Init /\ alive = {} /\ ~loopback
SpecHttp == InitHttp /\ [][NextHttp]_vars

\* C38: HttpServer::Stop() stops the underlying server only if it is running
\* and is otherwise a no-op: a Stop() on a server that is not running leaves
\* the httplib::Server as it was and does not call stop() on it, a Stop() on
\* a running one closes its socket, a Stop() applied to the outcome of a
\* Stop() gives that outcome, a Stop() called after the Stop() that stopped
\* the server changes nothing whatever the thread in Run has done since, and
\* neither does the destruction of an HttpServer that was never run or whose
\* Run has returned.
C38_StopIdempotent ==
    [][/\ HttpStop =>
            /\ ~http.is_running => Underlying(http') = Underlying(http) /\ ~http'.stopped
            /\ http.is_running => http'.svr_sock = "invalid" /\ http'.stopped
            /\ (http.last = "Stop" /\ http.stopped) => Underlying(http') = Underlying(http)
            /\ Underlying(HttpServerStop(http')) = Underlying(http')
       /\ (HttpServerDestroy /\ http.pc \in {"none", "returned", "threw"}) =>
            /\ Underlying(http') = Underlying(http)
            /\ ~http'.stopped
            /\ ~http'.crashed]_vars

\* Stop() was called twice in a row on a server that has served and whose Run
\* has returned, and the second call left stop() alone.
C38_Witness ==
    /\ http.last = "Stop"
    /\ http.again
    /\ http.pc = "returned"
    /\ http.status # 0
    /\ ~http.stopped

====
